---- MODULE Spec2Model ----
(***************************************************************************)
(* A model of APP.py: the PDF splitter that cuts an uploaded document into *)
(* sections, names each section after a field found on its pages, filters  *)
(* sections with a negative LAA/DESCARGA value, and offers the archive and *)
(* the workbook for download from the session cache.                       *)
(*                                                                         *)
(* Text is modelled character by character: a string is a sequence of      *)
(* one-character strings.  The characters outside ASCII are written as     *)
(* tokens: NBSP (U+00A0), the accented E of "GENERO" and the two dashes.   *)
(***************************************************************************)
EXTENDS Naturals, Integers, Sequences, FiniteSets, TLC

VARIABLES
    file,           \* the uploaded file of the session, or NoFile
    widgets,        \* the sidebar's values: mode, patterns, n_pages, ...
    session_state,  \* st.session_state: a function from the keys set so far
    screen,         \* what the last run of the script showed
    args,           \* arguments of a function under test
    result          \* the values the function under test returned, in order

vars == <<file, widgets, session_state, screen, args, result>>

----------------------------------------------------------------------------
(* Bounds of the model *)

MaxNameLen == 4     \* longest string given to sanitize_filename
MaxCut == 4         \* largest max_len given to sanitize_filename
MaxNumLen == 4      \* longest string given to is_negative_number_string
MaxPages == 3       \* most pages of a document
MaxStride == 5      \* largest block size given to build_ranges_every_n
MaxTotalPages == 12 \* most pages given to build_ranges_every_n

----------------------------------------------------------------------------
(* Characters *)

NBSP == "<U+00A0>"
EAcuteUpper == "<U+00C9>"
EAcuteLower == "<U+00E9>"

UpperLetters ==
    <<"A", "B", "C", "D", "E", "F", "G", "H", "I", "J", "K", "L", "M",
      "N", "O", "P", "Q", "R", "S", "T", "U", "V", "W", "X", "Y", "Z",
      EAcuteUpper>>

LowerLetters ==
    <<"a", "b", "c", "d", "e", "f", "g", "h", "i", "j", "k", "l", "m",
      "n", "o", "p", "q", "r", "s", "t", "u", "v", "w", "x", "y", "z",
      EAcuteLower>>

DigitChars == <<"0", "1", "2", "3", "4", "5", "6", "7", "8", "9">>

Range(s) == {s[i] : i \in DOMAIN s}

Min(a, b) == IF a <= b THEN a ELSE b

\* Python's \s (and str.strip's whitespace) on the characters of the model.
IsSpace(c) == c \in {" ", "\t", "\n", NBSP}

IsDigit(c) == c \in Range(DigitChars)

\* Python's \w.
IsWordChar(c) ==
    c \in Range(UpperLetters) \cup Range(LowerLetters) \cup Range(DigitChars) \cup {"_"}

\* str.lower on one character (what re.IGNORECASE compares by).
LowerChar(c) ==
    IF c \in Range(UpperLetters)
    THEN LowerLetters[CHOOSE i \in DOMAIN UpperLetters : UpperLetters[i] = c]
    ELSE c

Fold(s) == [i \in DOMAIN s |-> LowerChar(s[i])]

Strings(alphabet, n) == UNION {[1..k -> alphabet] : k \in 0..n}

RECURSIVE LStrip(_)
LStrip(s) == IF s = <<>> \/ ~IsSpace(Head(s)) THEN s ELSE LStrip(Tail(s))

RECURSIVE RStrip(_)
RStrip(s) ==
    IF s = <<>> \/ ~IsSpace(s[Len(s)]) THEN s ELSE RStrip(SubSeq(s, 1, Len(s) - 1))

\* str.strip()
Strip(s) == RStrip(LStrip(s))

\* re.sub(r"\s+", " ", s)
RECURSIVE CollapseWs(_)
CollapseWs(s) ==
    IF s = <<>> THEN <<>>
    ELSE IF IsSpace(Head(s)) THEN <<" ">> \o CollapseWs(LStrip(s))
    ELSE <<Head(s)>> \o CollapseWs(Tail(s))

----------------------------------------------------------------------------
(* sanitize_filename *)

DefaultMaxLen == 100

PlanStr == <<"P", "l", "a", "n">>

\* the characters [^\w\s\-_.()] does not remove
SanitizeKeeps(c) == IsWordChar(c) \/ IsSpace(c) \/ c \in {"-", "_", ".", "(", ")"}

\* name[:max_len]
Truncate(name, max_len) == SubSeq(name, 1, Min(max_len, Len(name)))

\* name or "Plan"
OrPlan(name) == IF name = <<>> THEN PlanStr ELSE name

sanitize_filename(name, max_len) ==
    OrPlan(Truncate(CollapseWs(Strip(SelectSeq(name, SanitizeKeeps))), max_len))

----------------------------------------------------------------------------
(* is_negative_number_string *)

NotThousandsSep(c) == c \notin {" ", ",", NBSP}

AllDigits(s) == \A i \in DOMAIN s : IsDigit(s[i])

\* -?\d+(\.\d+)? over the whole of t
WholeNumber(t) ==
    LET u == IF t # <<>> /\ Head(t) = "-" THEN Tail(t) ELSE t
    IN  \E k \in 1..Len(u) :
            /\ AllDigits(SubSeq(u, 1, k))
            /\ \/ k = Len(u)
               \/ /\ k + 2 <= Len(u)
                  /\ u[k + 1] = "."
                  /\ AllDigits(SubSeq(u, k + 2, Len(u)))

\* re.match(r"^-?\d+(\.\d+)?$", t): without re.MULTILINE, $ matches at the
\* end of the string and also just before a line feed that ends the string.
MatchesNumberPattern(t) ==
    \/ WholeNumber(t)
    \/ /\ t # <<>>
       /\ t[Len(t)] = "\n"
       /\ WholeNumber(SubSeq(t, 1, Len(t) - 1))

is_negative_number_string(s) ==
    IF s = <<>> THEN FALSE
    ELSE LET s_compact == SelectSeq(s, NotThousandsSep)
         IN  /\ MatchesNumberPattern(s_compact)
             /\ s_compact # <<>>
             /\ Head(s_compact) = "-"

----------------------------------------------------------------------------
(* Optional values: Python's None, and a value that is present *)

None == [some |-> FALSE, v |-> <<>>]
Some(x) == [some |-> TRUE, v |-> x]

\* `x or None`, `x if x else None` for a string x
OrNone(x) == IF x # <<>> THEN Some(x) ELSE None

----------------------------------------------------------------------------
(* Lines of text *)

IndexOf(c, s) ==
    IF \E i \in DOMAIN s : s[i] = c
    THEN CHOOSE i \in DOMAIN s : s[i] = c /\ \A j \in 1..(i - 1) : s[j] # c
    ELSE 0

\* str.splitlines(): no line for an empty text, none after a final line feed
RECURSIVE SplitLines(_)
SplitLines(txt) ==
    IF txt = <<>> THEN <<>>
    ELSE LET i == IndexOf("\n", txt)
         IN  IF i = 0 THEN <<txt>>
             ELSE <<SubSeq(txt, 1, i - 1)>> \o SplitLines(SubSeq(txt, i + 1, Len(txt)))

\* str.split("\n"): one (empty) piece for an empty text
RECURSIVE SplitOnNewline(_)
SplitOnNewline(txt) ==
    LET i == IndexOf("\n", txt)
    IN  IF i = 0 THEN <<txt>>
        ELSE <<SubSeq(txt, 1, i - 1)>> \o SplitOnNewline(SubSeq(txt, i + 1, Len(txt)))

\* "\n".join(lines)
RECURSIVE JoinLines(_)
JoinLines(lines) ==
    IF lines = <<>> THEN <<>>
    ELSE IF Len(lines) = 1 THEN lines[1]
    ELSE lines[1] \o <<"\n">> \o JoinLines(Tail(lines))

\* lines[:n] for n >= 0
FirstLines(lines, n) == SubSeq(lines, 1, Min(n, Len(lines)))

----------------------------------------------------------------------------
(* The label patterns.  A pattern is a record: the words of the label,     *)
(* which \s+ separates and \s* may precede; and, when it captures, the     *)
(* separator characters after which \s*(.+)$ captures the value.  All are  *)
(* compiled with re.IGNORECASE and anchored at the start of the line.      *)

W_NOMBRE == <<"N", "O", "M", "B", "R", "E">>
W_DEL == <<"D", "E", "L">>
W_PROFESOR_A == <<"P", "R", "O", "F", "E", "S", "O", "R", "(", "A", ")">>
W_LAA_DESCARGA == <<"L", "A", "A", "/", "D", "E", "S", "C", "A", "R", "G", "A">>
W_PLAN == <<"p", "l", "a", "n">>
W_DE == <<"d", "e">>
W_CLASE == <<"c", "l", "a", "s", "e">>
W_DOCENTE == <<"d", "o", "c", "e", "n", "t", "e">>

EmDash == "<U+2014>"
EnDash == "<U+2013>"
LabelSeparators == {":", "=", "-", EmDash, EnDash}

\* ^\s*NOMBRE\s+DEL\s+PROFESOR\(A\)\s*[:=\-—–]\s*(.+)$
label_rx ==
    [words |-> <<W_NOMBRE, W_DEL, W_PROFESOR_A>>, captures |-> TRUE,
     seps |-> LabelSeparators]

\* ^\s*LAA/DESCARGA\s*[:=\-—–]\s*(.+)$
laa_rx ==
    [words |-> <<W_LAA_DESCARGA>>, captures |-> TRUE, seps |-> LabelSeparators]

\* ^\s*plan\s+de\s+clase
plan_pattern ==
    [words |-> <<W_PLAN, W_DE, W_CLASE>>, captures |-> FALSE, seps |-> {}]

\* ^\s*docente\s*:\s*(.+)$
docente_pattern ==
    [words |-> <<W_DOCENTE>>, captures |-> TRUE, seps |-> {":"}]

StartsWithFold(s, w) ==
    Len(s) >= Len(w) /\ Fold(SubSeq(s, 1, Len(w))) = Fold(w)

NoMatch == [matched |-> FALSE, group |-> None]

\* s without its first n characters
Drop(s, n) == SubSeq(s, n + 1, Len(s))

\* what is left of s after the words, each but the last followed by \s+;
\* s has no leading whitespace
RECURSIVE AfterWords(_, _)
AfterWords(s, words) ==
    IF ~StartsWithFold(s, Head(words)) THEN [matched |-> FALSE, rest |-> <<>>]
    ELSE IF Len(words) = 1
    THEN [matched |-> TRUE, rest |-> Drop(s, Len(Head(words)))]
    ELSE IF Len(s) = Len(Head(words)) \/ ~IsSpace(s[Len(Head(words)) + 1])
    THEN [matched |-> FALSE, rest |-> <<>>]
    ELSE AfterWords(LStrip(Drop(s, Len(Head(words)))), Tail(words))

\* (.+)$ after the separator: the rest of the line after the whitespace that
\* follows the separator; when only whitespace follows, \s* gives the last
\* character back
Captured(rest, value) ==
    IF rest = <<>> THEN NoMatch
    ELSE IF value # <<>> THEN [matched |-> TRUE, group |-> Some(value)]
    ELSE [matched |-> TRUE, group |-> Some(<<rest[Len(rest)]>>)]

\* \s*[separators]\s*(.+)$ on s, which has no leading whitespace
SeparatorAndValue(rx, s) ==
    IF s = <<>> \/ Head(s) \notin rx.seps THEN NoMatch
    ELSE Captured(Tail(s), LStrip(Tail(s)))

\* the pattern's end on what follows its words
AfterLabel(rx, w) ==
    IF ~w.matched THEN NoMatch
    ELSE IF ~rx.captures THEN [matched |-> TRUE, group |-> None]
    ELSE SeparatorAndValue(rx, LStrip(w.rest))

\* rx.search(line): the match, and its group 1 when the pattern captures
Search(rx, line) == AfterLabel(rx, AfterWords(LStrip(line), rx.words))

----------------------------------------------------------------------------
(* Documents: a document is the sequence of its pages' texts, as           *)
(* page.extract_text() gives them.                                         *)

PlanDeClase == <<"P", "l", "a", "n", " ", "d", "e", " ", "c", "l", "a", "s", "e">>
DocenteBo == <<"D", "o", "c", "e", "n", "t", "e", ":", " ", "B", "o">>
Ana == <<"A", "n", "a">>
AnaSuffix2 == <<"A", "n", "a", "_", "(", "2", ")">>
DrAnaGenero ==
    <<"D", "r", ".", " ", "A", "n", "a", " ", "G", "E", "N", "E", "R", "O", ":", " ", "F">>
GeneroOnly == <<"G", "E", "N", "E", "R", "O", ":", " ", "M">>
Minus15 == <<"-", " ", "1", ",", "5">>
Three == <<"3">>
Abc == <<"a", "b", "c">>

NameLine(v) == W_NOMBRE \o <<" ">> \o W_DEL \o <<" ">> \o W_PROFESOR_A \o <<":", " ">> \o v
LaaLine(v) == W_LAA_DESCARGA \o <<":", " ">> \o v

\* the texts of the pages the documents of the model are made of
PageKinds ==
    { JoinLines(<<PlanDeClase, NameLine(Ana), LaaLine(Three)>>),
      JoinLines(<<DocenteBo, NameLine(AnaSuffix2), LaaLine(Abc)>>),
      JoinLines(<<DocenteBo, NameLine(GeneroOnly)>>),
      JoinLines(<<PlanDeClase, NameLine(DrAnaGenero), LaaLine(Minus15)>>),
      JoinLines(<<DocenteBo>>),
      JoinLines(<<Abc, Abc, Abc, Abc, Abc, NameLine(Ana)>>) }

\* the documents of at most n pages
Documents(n) == UNION {[1..k -> PageKinds] : k \in 0..n}

\* the same, with pages that have no text
DocumentsWithBlanks(n) == UNION {[1..k -> PageKinds \cup {<<>>}] : k \in 0..n}

\* values of "Lineas a leer por pagina (INICIO)": all lines, the first line
HeaderLineChoices == {0, 1}

PatternLists ==
    { <<plan_pattern>>, <<docente_pattern>>,
      <<plan_pattern, docente_pattern>>, <<docente_pattern, plan_pattern>> }

----------------------------------------------------------------------------
(* get_page_texts_for_start, detect_starts_by_patterns and the ranges *)

get_page_texts_for_start(pages, max_lines) ==
    [i \in DOMAIN pages |->
        LET lines == SplitLines(pages[i])
            take == IF max_lines <= 0 THEN lines ELSE FirstLines(lines, max_lines)
        IN  JoinLines(take)]

RECURSIVE FirstLineMatch(_, _)

\* the match m of a line, or else the first match among the lines after it
MatchOrLater(m, rx, later) == IF m.matched THEN m ELSE FirstLineMatch(rx, later)

\* the first line of lines that rx matches: its match, or NoMatch
FirstLineMatch(rx, lines) ==
    IF lines = <<>> THEN NoMatch
    ELSE MatchOrLater(Search(rx, Head(lines)), rx, Tail(lines))

RECURSIVE PageStart(_, _)

\* found_label of the match m of a pattern; the later patterns when it
\* matches no line
LabelOrNextPattern(m, txt, later) ==
    IF m.matched
    THEN [matched |-> TRUE,
          found_label |-> IF m.group.some
                          THEN OrNone(sanitize_filename(m.group.v, DefaultMaxLen))
                          ELSE None]
    ELSE PageStart(txt, later)

\* the inner loops for one page: the first pattern, in list order, that
\* matches a line of the page decides the page and its label
PageStart(txt, regexes) ==
    IF regexes = <<>> THEN [matched |-> FALSE, found_label |-> None]
    ELSE LabelOrNextPattern(FirstLineMatch(Head(regexes), SplitOnNewline(txt)),
                            txt, Tail(regexes))

\* starts.append((i, found_label)) when the page matched
StartOf(i, s) ==
    IF s.matched THEN <<[page |-> i, label |-> s.found_label]>> ELSE <<>>

\* (page_index, label) of every page that starts a section; pages from 0
RECURSIVE StartsFrom(_, _, _)
StartsFrom(i, page_texts, patterns) ==
    IF i > Len(page_texts) THEN <<>>
    ELSE StartOf(i - 1, PageStart(page_texts[i], patterns))
            \o StartsFrom(i + 1, page_texts, patterns)

detect_starts_by_patterns(page_texts, patterns) == StartsFrom(1, page_texts, patterns)

build_ranges_from_starts(total_pages, starts) ==
    [k \in DOMAIN starts |->
        [start |-> starts[k].page,
         end |-> IF k + 1 <= Len(starts) THEN starts[k + 1].page ELSE total_pages,
         label |-> starts[k].label]]

\* build_ranges_every_n with `while i + n <= total_pages`: the short last
\* block is dropped
RECURSIVE EveryNLoopWholeBlocks(_, _, _, _)
EveryNLoopWholeBlocks(i, ranges, total_pages, n) ==
    IF i + n <= total_pages
    THEN EveryNLoopWholeBlocks(i + n,
             Append(ranges, [start |-> i, end |-> i + n, label |-> None]),
             total_pages, n)
    ELSE ranges

\* the while loop of build_ranges_every_n, from i with the ranges so far
RECURSIVE EveryNLoop(_, _, _, _)
EveryNLoop(i, ranges, total_pages, n) ==
    IF i < total_pages
    THEN LET end == Min(i + n, total_pages)
         IN  EveryNLoop(end, Append(ranges, [start |-> i, end |-> end, label |-> None]),
                        total_pages, n)
    ELSE ranges

build_ranges_every_n(total_pages, n) == EveryNLoop(0, <<>>, total_pages, n)

----------------------------------------------------------------------------
(* clean_title_prefixes and cut_before_genero *)

\* the titles of the pattern that take an optional "." (dr\.?, m\.?sc\.?, ...)
DottedTitles ==
    { <<"d", "r">>, <<"d", "r", "a">>, <<"l", "i", "c">>, <<"i", "n", "g">>,
      <<"m", "s", "c">>, <<"m", ".", "s", "c">>, <<"m", "a", "g">>,
      <<"m", "t", "r">>, <<"p", "h", "d">>, <<"p", "h", ".", "d">>,
      <<"p", "r", "o", "f">> }

\* maestr[eo] and master
PlainTitles ==
    { <<"m", "a", "e", "s", "t", "r", "e">>, <<"m", "a", "e", "s", "t", "r", "o">>,
      <<"m", "a", "s", "t", "e", "r">> }

TitleLiterals == DottedTitles \cup {w \o <<".">> : w \in DottedTitles} \cup PlainTitles

\* the titles that s starts with and whitespace follows: at most one
TitlesAt(s) ==
    {w \in TitleLiterals :
        StartsWithFold(s, w) /\ Len(s) > Len(w) /\ IsSpace(s[Len(w) + 1])}

\* name without the match of ^\s*(?:title)\s+, where s is name without its
\* leading whitespace
WithoutTitle(name, s, titles) ==
    IF titles = {} THEN name
    ELSE LStrip(Drop(s, Len(CHOOSE w \in titles : TRUE)))

clean_title_prefixes(name) ==
    IF name = <<>> THEN name
    ELSE Strip(CollapseWs(WithoutTitle(name, LStrip(name), TitlesAt(LStrip(name)))))

GeneroWords ==
    { <<"g", "e", "n", "e", "r", "o">>, <<"g", EAcuteLower, "n", "e", "r", "o">> }

\* \bG[EÉ]NERO\b matches at i (re.IGNORECASE)
GeneroAt(s, i) ==
    /\ i + 5 <= Len(s)
    /\ Fold(SubSeq(s, i, i + 5)) \in GeneroWords
    /\ (i = 1 \/ ~IsWordChar(s[i - 1]))
    /\ (i + 5 = Len(s) \/ ~IsWordChar(s[i + 6]))

cut_before_genero(s) ==
    IF s = <<>> THEN s
    ELSE IF \E i \in DOMAIN s : GeneroAt(s, i)
    THEN LET i == CHOOSE i \in DOMAIN s :
                      GeneroAt(s, i) /\ \A j \in 1..(i - 1) : ~GeneroAt(s, j)
         IN  Strip(SubSeq(s, 1, i - 1))
    ELSE Strip(s)

----------------------------------------------------------------------------
(* find_prof_name_in_section and find_laa_descarga_in_section *)

\* the lines both functions visit, in order: the first lines_per_page lines
\* of the pages start_page .. min(end_page, start_page + scan_pages) - 1
RECURSIVE ScannedLines(_, _, _, _)
ScannedLines(pages, p, stop, lines_per_page) ==
    IF p >= stop THEN <<>>
    ELSE FirstLines(SplitLines(pages[p + 1]), lines_per_page)
            \o ScannedLines(pages, p + 1, stop, lines_per_page)

RECURSIVE FirstValue(_, _)

\* `if m and m.group(1).strip(): ...` for the match m of a line; the lines
\* after it otherwise
ValueOrLater(m, rx, later) ==
    IF m.matched /\ Strip(m.group.v) # <<>>
    THEN Some(Strip(m.group.v))
    ELSE FirstValue(rx, later)

\* m.group(1).strip() of the first line that rx matches with a group that
\* is not blank
FirstValue(rx, lines) ==
    IF lines = <<>> THEN None
    ELSE ValueOrLater(Search(rx, Head(lines)), rx, Tail(lines))

\* the three cleaning steps on the value found, and
\* `return name if name else None`
CleanedName(found) ==
    IF ~found.some THEN None
    ELSE OrNone(sanitize_filename(clean_title_prefixes(cut_before_genero(found.v)),
                                  DefaultMaxLen))

find_prof_name_in_section(pages, start_page, end_page, scan_pages, lines_per_page) ==
    CleanedName(FirstValue(label_rx,
        ScannedLines(pages, start_page, Min(end_page, start_page + scan_pages),
                     lines_per_page)))

find_laa_descarga_in_section(pages, start_page, end_page, scan_pages, lines_per_page) ==
    FirstValue(laa_rx,
        ScannedLines(pages, start_page, Min(end_page, start_page + scan_pages),
                     lines_per_page))

----------------------------------------------------------------------------
(* build_excel_bytes *)

\* the characters of the model in code point order
CodePointOrder ==
    <<"\t", "\n", " ", "#", "(", ")", ",", "-", ".", "/">> \o DigitChars
        \o <<":", "=", "?">> \o SubSeq(UpperLetters, 1, 26) \o <<"_">>
        \o SubSeq(LowerLetters, 1, 26)
        \o <<NBSP, EAcuteUpper, EAcuteLower, EnDash, EmDash>>

Ord(c) == CHOOSE i \in DOMAIN CodePointOrder : CodePointOrder[i] = c

\* a < b for Python strings
RECURSIVE StrLess(_, _)
StrLess(a, b) ==
    IF b = <<>> THEN FALSE
    ELSE IF a = <<>> THEN TRUE
    ELSE IF Head(a) = Head(b) THEN StrLess(Tail(a), Tail(b))
    ELSE Ord(Head(a)) < Ord(Head(b))

\* counts[key] after the loop over detalles_rows
NameCounts(detalles_rows) ==
    [key \in {detalles_rows[i].nombre_detectado : i \in DOMAIN detalles_rows} |->
        Cardinality({i \in DOMAIN detalles_rows : detalles_rows[i].nombre_detectado = key})]

\* key=lambda x: x[0]: the count is left out of the sort key
ItemBeforeByName(counts, a, b) == StrLess(a, b)

\* key=lambda x: (-x[1], x[0])
ItemBefore(counts, a, b) ==
    \/ counts[a] > counts[b]
    \/ counts[a] = counts[b] /\ StrLess(a, b)

\* sorted(counts.items(), key=...) over the keys in S
RECURSIVE SortedItems(_, _)
SortedItems(counts, S) ==
    IF S = {} THEN <<>>
    ELSE LET first == CHOOSE a \in S : \A b \in S \ {a} : ItemBefore(counts, a, b)
         IN  <<[nombre_detectado |-> first, cantidad_pdfs |-> counts[first]]>>
                 \o SortedItems(counts, S \ {first})

\* the workbook: the rows of its sheets under their headers; the sheet
\* "errores" exists only when there are rejected sections
build_excel_bytes(detalles_rows, errores_rows) ==
    LET counts == NameCounts(detalles_rows)
    IN  [sheets |-> IF errores_rows # <<>>
                    THEN <<"detalles", "resumen", "errores">>
                    ELSE <<"detalles", "resumen">>,
         detalles |-> detalles_rows,
         resumen |-> SortedItems(counts, DOMAIN counts),
         errores |-> errores_rows]

----------------------------------------------------------------------------
(* export_zip_and_excel *)

PdfExt == <<".", "p", "d", "f">>
PlanUnderscore == <<"P", "l", "a", "n", "_">>

\* str(n) for n >= 0
RECURSIVE Decimal(_)
Decimal(n) ==
    IF n < 10 THEN <<DigitChars[n + 1]>>
    ELSE Decimal(n \div 10) \o <<DigitChars[(n % 10) + 1]>>

\* f"{idx:03d}"
ZeroPad3(idx) ==
    LET d == Decimal(idx)
    IN  IF Len(d) >= 3 THEN d ELSE [i \in 1..(3 - Len(d)) |-> "0"] \o d

EmptyExport ==
    [detalles_rows |-> <<>>, errores_rows |-> <<>>, zip_entries |-> <<>>,
     used_names |-> <<>>]

\* `laa_val is None or ...`: a section without the field is rejected too
RejectsMissingToo(laa_val) == ~laa_val.some \/ is_negative_number_string(laa_val.v)

\* laa_val is not None and is_negative_number_string(laa_val)
Rejects(laa_val) == laa_val.some /\ is_negative_number_string(laa_val.v)

\* step 1 of the loop body, from what find_prof_name_in_section found
NameOrFallback(found, label_opt, idx) ==
    IF found.some /\ found.v # <<>> THEN found.v
    ELSE IF label_opt.some /\ label_opt.v # <<>>
    THEN sanitize_filename(label_opt.v, DefaultMaxLen)
    ELSE PlanUnderscore \o ZeroPad3(idx)

\* the display name of section idx = (start, end, label_opt)
DetectedName(pages, idx, range, scan_pages, lines_per_page) ==
    NameOrFallback(find_prof_name_in_section(pages, range.start, range.end,
                                             scan_pages, lines_per_page),
                   range.label, idx)

\* errores_rows.append({...})
RejectSection(idx, range, acc, detected, laa_val) ==
    [acc EXCEPT !.errores_rows = Append(@,
        [orden |-> idx,
         nombre_detectado |-> detected,
         valor_laa_descarga |-> laa_val.v,
         motivo |-> "LAA/DESCARGA negativo",
         pagina_inicio_1based |-> range.start + 1,
         pagina_fin_1based |-> range.end,
         paginas_en_pdf |-> range.end - range.start])]

\* step 4 with one counter for all names: a repeated name gets the number of
\* the file in the archive
WritePdfOneCounter(pages, idx, range, acc, detected, base) ==
    LET seen == base \in DOMAIN acc.used_names
        final_name == IF seen
                      THEN base \o <<"_", "(">> \o Decimal(Len(acc.zip_entries) + 1)
                               \o <<")">>
                      ELSE base
        fname == final_name \o PdfExt
    IN  [acc EXCEPT
           !.used_names = IF seen THEN [@ EXCEPT ![base] = @ + 1] ELSE (base :> 1) @@ @,
           !.zip_entries = Append(@, [name |-> fname,
                                      pages |-> SubSeq(pages, range.start + 1, range.end)]),
           !.detalles_rows = Append(@,
               [orden |-> idx, archivo |-> fname, nombre_detectado |-> detected,
                pagina_inicio_1based |-> range.start + 1,
                pagina_fin_1based |-> range.end,
                paginas_en_pdf |-> range.end - range.start])]

\* step 4: the file name from base and used_names, the entry of the archive
\* and the row of detalles_rows
WritePdf(pages, idx, range, acc, detected, base) ==
    LET seen == base \in DOMAIN acc.used_names
        used == IF seen
                THEN [acc.used_names EXCEPT ![base] = @ + 1]
                ELSE (base :> 1) @@ acc.used_names
        final_name == IF seen
                      THEN base \o <<"_", "(">> \o Decimal(used[base]) \o <<")">>
                      ELSE base
        fname == final_name \o PdfExt
    IN  [acc EXCEPT
           !.used_names = used,
           !.zip_entries = Append(@, [name |-> fname,
                                      pages |-> SubSeq(pages, range.start + 1, range.end)]),
           !.detalles_rows = Append(@,
               [orden |-> idx, archivo |-> fname, nombre_detectado |-> detected,
                pagina_inicio_1based |-> range.start + 1,
                pagina_fin_1based |-> range.end,
                paginas_en_pdf |-> range.end - range.start])]

\* base = sanitize_filename(f"{prefix}{detected}") if prefix else
\* sanitize_filename(detected)
BaseName(prefix, detected) ==
    IF prefix # <<>>
    THEN sanitize_filename(prefix \o detected, DefaultMaxLen)
    ELSE sanitize_filename(detected, DefaultMaxLen)

\* steps 3 and 4 of the loop body, from the name and the value found
ValidateAndWrite(pages, idx, range, prefix, acc, detected, laa_val) ==
    IF Rejects(laa_val)
    THEN RejectSection(idx, range, acc, detected, laa_val)
    ELSE WritePdf(pages, idx, range, acc, detected, BaseName(prefix, detected))

\* the body of the loop for section idx, from the state acc of the export
ExportSection(pages, idx, range, prefix, scan_pages, lines_per_page, acc) ==
    ValidateAndWrite(pages, idx, range, prefix, acc,
        DetectedName(pages, idx, range, scan_pages, lines_per_page),
        find_laa_descarga_in_section(pages, range.start, range.end,
                                     scan_pages, lines_per_page))

\* the loop over enumerate(ranges, 1), from section idx
RECURSIVE ExportLoop(_, _, _, _, _, _, _)
ExportLoop(pages, ranges, idx, prefix, scan_pages, lines_per_page, acc) ==
    IF idx > Len(ranges) THEN acc
    ELSE ExportLoop(pages, ranges, idx + 1, prefix, scan_pages, lines_per_page,
             ExportSection(pages, idx, ranges[idx], prefix, scan_pages,
                           lines_per_page, acc))

\* what the function returns from the state of the finished loop
Exported(done) ==
    [zip_bytes |-> done.zip_entries,
     excel_bytes |-> build_excel_bytes(done.detalles_rows, done.errores_rows),
     detalles_rows |-> done.detalles_rows,
     errores_rows |-> done.errores_rows]

\* (zip_bytes, excel_bytes, detalles_rows, errores_rows); the archive is the
\* sequence of its entries
export_zip_and_excel(pages, ranges, prefix, scan_pages, lines_per_page) ==
    Exported(ExportLoop(pages, ranges, 1, prefix, scan_pages, lines_per_page,
                        EmptyExport))

----------------------------------------------------------------------------
(* The script: one run from top to bottom for every interaction.           *)
(* Texts shown to the user are written without accents.                    *)

NoFile == [present |-> FALSE, name |-> <<>>, pages |-> <<>>]
NoArgs == [fn |-> "none"]

PatternMode == "Por patrones de inicio"
EveryNMode == "Cada N paginas"

\* a line of the text area that holds only whitespace
BlankLine == [words |-> <<>>, captures |-> FALSE, seps |-> {}, blank |-> TRUE]

PatternLine(rx) == [words |-> rx.words, captures |-> rx.captures, seps |-> rx.seps,
                    blank |-> FALSE]

\* the text area's value for the mode; the model keeps two of the three
\* default patterns
DefaultPatternsText(mode) ==
    IF mode = PatternMode
    THEN <<PatternLine(plan_pattern), PatternLine(docente_pattern)>>
    ELSE <<>>

DefaultHeaderLines == 10
DefaultNPages == 2
DefaultScanPages == 2
DefaultLinesForName == 60

DefaultWidgets ==
    [mode |-> PatternMode,
     patterns_text |-> DefaultPatternsText(PatternMode),
     header_lines |-> DefaultHeaderLines,
     n_pages |-> DefaultNPages,
     scan_pages |-> DefaultScanPages,
     lines_for_name |-> DefaultLinesForName,
     prefix |-> <<>>]

EmptySessionState == [k \in {} |-> <<>>]

SplitZipSuffix == <<"_", "s", "p", "l", "i", "t", ".", "z", "i", "p">>
ReporteXlsxSuffix == <<"_", "r", "e", "p", "o", "r", "t", "e", ".", "x", "l", "s", "x">>
PlanesSplitZip ==
    <<"p", "l", "a", "n", "e", "s", "_", "s", "p", "l", "i", "t", ".", "z", "i", "p">>
ReporteXlsx == <<"r", "e", "p", "o", "r", "t", "e", ".", "x", "l", "s", "x">>

\* Path(name).stem: the name without its last suffix
Stem(name) ==
    LET dots == {i \in DOMAIN name : name[i] = "." /\ i > 1 /\ i < Len(name)}
    IN  IF dots = {} THEN name
        ELSE SubSeq(name, 1, (CHOOSE i \in dots : \A j \in dots : j <= i) - 1)

\* st.session_state.get(key, default)
Get(ss, key, default) == IF key \in DOMAIN ss THEN ss[key] ELSE default

Message(kind, text) == [kind |-> kind, text |-> text]

DownloadButton(key, data, file_name) ==
    [kind |-> "download_button", key |-> key, data |-> data, file_name |-> file_name]

Dataframe(rows) == [kind |-> "dataframe", rows |-> rows]

\* the buttons shown from the cache, before the file is looked at
ReadyDownloads(ss) ==
    IF "zip_bytes" \in DOMAIN ss /\ "excel_bytes" \in DOMAIN ss
    THEN << Message("success", "Archivos listos para descargar (sin recalcular)."),
            DownloadButton("dl_zip_ready", ss["zip_bytes"],
                           Get(ss, "zip_name", PlanesSplitZip)),
            DownloadButton("dl_excel_ready", ss["excel_bytes"],
                           Get(ss, "excel_name", ReporteXlsx)) >>
    ELSE <<>>

\* [p for p in patterns_text.splitlines() if p.strip()]
NonBlankPatterns(patterns_text) ==
    LET IsPattern(line) == ~line.blank
        lines == SelectSeq(patterns_text, IsPattern)
    IN  [i \in DOMAIN lines |->
            [words |-> lines[i].words, captures |-> lines[i].captures,
             seps |-> lines[i].seps]]

\* the table of the preview
PreviewTable(text, ranges) ==
    << [kind |-> "success", text |-> text, count |-> Len(ranges)],
       Dataframe([k \in DOMAIN ranges |->
           [inicio |-> ranges[k].start + 1, fin |-> ranges[k].end,
            etiqueta |-> ranges[k].label]]) >>

\* the preview in pattern mode, from the starts detected
PreviewStarts(total_pages, starts) ==
    IF starts = <<>>
    THEN <<Message("warning",
             "No se detectaron INICIOS. Ajusta patrones o usa 'Cada N paginas'.")>>
    ELSE PreviewTable("Detectados cortes/secciones.",
                      build_ranges_from_starts(total_pages, starts))

\* the handler of "Previsualizar cortes": what it shows
PreviewHandler(f, w) ==
    IF w.mode = PatternMode
    THEN IF NonBlankPatterns(w.patterns_text) = <<>>
         THEN <<Message("error", "Agrega al menos un patron o usa 'Cada N paginas'.")>>
         ELSE PreviewStarts(Len(f.pages),
                  detect_starts_by_patterns(
                      get_page_texts_for_start(f.pages, w.header_lines),
                      NonBlankPatterns(w.patterns_text)))
    ELSE PreviewTable("Se crearian archivos.",
                      build_ranges_every_n(Len(f.pages), w.n_pages))

Stopped(error) == [stopped |-> TRUE, error |-> error, ranges |-> <<>>]

Ranges(ranges) == [stopped |-> FALSE, error |-> "", ranges |-> ranges]

\* `if not starts: st.error(...); st.stop()`, and the ranges otherwise
RangesOfStarts(total_pages, starts) ==
    IF starts = <<>>
    THEN Stopped("No se detectaron INICIOS. Revisa los patrones.")
    ELSE Ranges(build_ranges_from_starts(total_pages, starts))

\* the export handler goes on with no ranges where it should stop
ExportRangesWithoutStop(f, w) ==
    IF w.mode = PatternMode
    THEN Ranges(build_ranges_from_starts(Len(f.pages),
             detect_starts_by_patterns(
                 get_page_texts_for_start(f.pages, w.header_lines),
                 NonBlankPatterns(w.patterns_text))))
    ELSE Ranges(build_ranges_every_n(Len(f.pages), w.n_pages))

\* the first part of the export handler: the ranges of the mode, or the
\* error it shows before st.stop()
ExportRanges(f, w) ==
    IF w.mode = PatternMode
    THEN IF NonBlankPatterns(w.patterns_text) = <<>>
         THEN Stopped("Agrega patrones o usa 'Cada N paginas'.")
         ELSE RangesOfStarts(Len(f.pages),
                  detect_starts_by_patterns(
                      get_page_texts_for_start(f.pages, w.header_lines),
                      NonBlankPatterns(w.patterns_text)))
    ELSE Ranges(build_ranges_every_n(Len(f.pages), w.n_pages))

\* the four assignments to st.session_state after the export
SessionAfterExport(ss, f, exported) ==
    ("zip_bytes" :> exported.zip_bytes)
        @@ ("excel_bytes" :> exported.excel_bytes)
        @@ ("zip_name" :> Stem(f.name) \o SplitZipSuffix)
        @@ ("excel_name" :> Stem(f.name) \o ReporteXlsxSuffix)
        @@ ss

\* the end of the export handler, from what export_zip_and_excel returned:
\* the cache, the counts, the two buttons and the rejected sections
StoreAndShow(f, ss, exported) ==
    [session_state |-> SessionAfterExport(ss, f, exported),
     elements |->
        << [kind |-> "success", text |-> "Listo! Generados PDFs validos.",
            generados |-> Len(exported.detalles_rows),
            excluidos |-> Len(exported.errores_rows)],
           DownloadButton("dl_zip_now", exported.zip_bytes,
                          Stem(f.name) \o SplitZipSuffix),
           DownloadButton("dl_excel_now", exported.excel_bytes,
                          Stem(f.name) \o ReporteXlsxSuffix) >>
        \o (IF exported.errores_rows # <<>>
            THEN << Message("warning",
                      "Los errores encontrados (excluidos del ZIP) por LAA/DESCARGA negativo:"),
                    Dataframe(exported.errores_rows) >>
            ELSE << Message("info",
                      "No se encontraron errores de LAA/DESCARGA negativa.") >>),
     export_called |-> TRUE, stopped |-> FALSE]

\* the export handler after its ranges r are built, or not
ExportOf(f, w, ss, r) ==
    IF r.stopped
    THEN [session_state |-> ss, elements |-> <<Message("error", r.error)>>,
          export_called |-> FALSE, stopped |-> TRUE]
    ELSE StoreAndShow(f, ss,
             export_zip_and_excel(f.pages, r.ranges, w.prefix, w.scan_pages,
                                  w.lines_for_name))

\* the handler of "Dividir, validar, nombrar y preparar descargas": the
\* session state it leaves, what it shows, whether it called
\* export_zip_and_excel and whether it stopped the script
ExportHandler(f, w, ss) == ExportOf(f, w, ss, ExportRanges(f, w))

Tips == <<Message("expander", "Tips")>>

Info(f) ==
    <<[kind |-> "info", text |-> "PDF cargado", name |-> f.name,
       total_pages |-> Len(f.pages)]>>

\* a run that leaves the session state as it was
Shows(ss, pressed, elements) ==
    [session_state |-> ss,
     screen |-> [pressed |-> pressed, elements |-> elements,
                 export_called |-> FALSE, stopped |-> FALSE]]

\* a run in which the export handler e ran; st.stop() ends the run before
\* the tips
ShowsExport(pressed, above, e) ==
    [session_state |-> e.session_state,
     screen |-> [pressed |-> pressed,
                 elements |-> above \o e.elements \o (IF e.stopped THEN <<>> ELSE Tips),
                 export_called |-> e.export_called,
                 stopped |-> e.stopped]]

\* one run of the script with the button `pressed` (or "none"): the session
\* state it leaves and the screen it shows
Script(f, w, ss, pressed) ==
    IF ~f.present
    THEN Shows(ss, pressed, ReadyDownloads(ss) \o Tips)
    ELSE IF pressed = "preview"
    THEN Shows(ss, pressed, ReadyDownloads(ss) \o Info(f) \o PreviewHandler(f, w) \o Tips)
    ELSE IF pressed = "export"
    THEN ShowsExport(pressed, ReadyDownloads(ss) \o Info(f), ExportHandler(f, w, ss))
    ELSE Shows(ss, pressed, ReadyDownloads(ss) \o Info(f) \o Tips)

ButtonKeys(s) ==
    {s.elements[i].key : i \in {j \in DOMAIN s.elements :
                                   s.elements[j].kind = "download_button"}}

----------------------------------------------------------------------------
(* The session: the user's interactions, each followed by a run of the     *)
(* script                                                                  *)

FileA == <<"a", ".", "p", "d", "f">>
FileB == <<"b", ".", "v", "2", ".", "p", "d", "f">>

\* two sections, the second with a negative LAA/DESCARGA; no "Docente:" line
DocumentPlans ==
    << JoinLines(<<PlanDeClase, NameLine(Ana), LaaLine(Three)>>),
       JoinLines(<<PlanDeClase, NameLine(DrAnaGenero), LaaLine(Minus15)>>) >>

\* a page without a start line, then a section that starts with "Docente:"
DocumentDocente ==
    << JoinLines(<<Abc, Abc, Abc, Abc, Abc, NameLine(Ana)>>),
       JoinLines(<<DocenteBo, NameLine(AnaSuffix2), LaaLine(Abc)>>) >>

Uploads ==
    {[present |-> TRUE, name |-> n, pages |-> d] :
        n \in {FileA, FileB}, d \in {DocumentPlans, DocumentDocente}}

PatternsTexts ==
    { DefaultPatternsText(PatternMode),
      <<PatternLine(docente_pattern), BlankLine>>,
      <<BlankLine>>,
      <<>> }

NPagesChoices == {1, 2}

\* the state after a run of the script
After(f, w, run) ==
    /\ file' = f
    /\ widgets' = w
    /\ session_state' = run.session_state
    /\ screen' = run.screen
    /\ UNCHANGED <<args, result>>

Rerun(f, w, pressed) == After(f, w, Script(f, w, session_state, pressed))

\* the screen of the first run of a session: no file, nothing cached
FirstScreen ==
    [pressed |-> "none", elements |-> Tips, export_called |-> FALSE, stopped |-> FALSE]

Init ==
    /\ file = NoFile
    /\ widgets = DefaultWidgets
    /\ session_state = EmptySessionState
    /\ screen = FirstScreen
    /\ args = NoArgs
    /\ result = <<>>

UploadFile == \E f \in Uploads : f # file /\ Rerun(f, widgets, "none")

RemoveFile == file.present /\ Rerun(NoFile, widgets, "none")

\* the text area is created anew, with the mode's default value
SetMode ==
    \E m \in {PatternMode, EveryNMode} :
        /\ m # widgets.mode
        /\ Rerun(file, [widgets EXCEPT !.mode = m,
                                       !.patterns_text = DefaultPatternsText(m)], "none")

SetPatternsText ==
    \E pt \in PatternsTexts :
        /\ pt # widgets.patterns_text
        /\ Rerun(file, [widgets EXCEPT !.patterns_text = pt], "none")

SetNPages ==
    \E n \in NPagesChoices :
        /\ n # widgets.n_pages
        /\ Rerun(file, [widgets EXCEPT !.n_pages = n], "none")

\* the buttons are drawn before their handlers run: a run that st.stop() ended
\* still shows them
ClickPreview == file.present /\ Rerun(file, widgets, "preview")

ClickExport == file.present /\ Rerun(file, widgets, "export")

ClickDownload == \E k \in ButtonKeys(screen) : Rerun(file, widgets, k)

\* a rerun without any change (the browser reloads the script's page)
PlainRerun == Rerun(file, widgets, "none")

Next ==
    \/ UploadFile
    \/ RemoveFile
    \/ SetMode
    \/ SetPatternsText
    \/ SetNPages
    \/ ClickPreview
    \/ ClickExport
    \/ ClickDownload
    \/ PlainRerun

Spec == Init /\ [][Next]_vars

\* the session of the specifications that apply one function
IdleSession ==
    /\ file = NoFile
    /\ widgets = DefaultWidgets
    /\ session_state = EmptySessionState
    /\ screen = FirstScreen

----------------------------------------------------------------------------
(* sanitize_filename applied, and applied again to its own result *)

SanitizeAlphabet == {"a", " ", "\t", "#", "_"}

InitSanitize ==
    /\ IdleSession
    /\ args \in {[fn |-> "sanitize_filename", name |-> s, max_len |-> m] :
                    s \in Strings(SanitizeAlphabet, MaxNameLen), m \in 1..MaxCut}
    /\ result = <<>>

CallSanitize ==
    /\ args.fn = "sanitize_filename"
    /\ result = <<>>
    /\ result' = <<sanitize_filename(args.name, args.max_len)>>
    /\ UNCHANGED <<file, widgets, session_state, screen, args>>

CallSanitizeAgain ==
    /\ args.fn = "sanitize_filename"
    /\ Len(result) = 1
    /\ result' = Append(result, sanitize_filename(result[1], args.max_len))
    /\ UNCHANGED <<file, widgets, session_state, screen, args>>

NextSanitize == CallSanitize \/ CallSanitizeAgain

SpecSanitize == InitSanitize /\ [][NextSanitize]_vars

\* C9: sanitize_filename is idempotent: sanitizing an already sanitized
\* string, with the same max_len, returns the same string.
C9_SanitizeIdempotent ==
    (args.fn = "sanitize_filename" /\ Len(result) = 2)
        => result[2] = result[1]

----------------------------------------------------------------------------
(* is_negative_number_string applied *)

NumberAlphabet == {"-", "1", ".", " ", ",", NBSP, "a", "\n"}

InitNegative ==
    /\ IdleSession
    /\ args \in {[fn |-> "is_negative_number_string", s |-> s] :
                    s \in Strings(NumberAlphabet, MaxNumLen)}
    /\ result = <<>>

CallIsNegative ==
    /\ args.fn = "is_negative_number_string"
    /\ result = <<>>
    /\ result' = <<is_negative_number_string(args.s)>>
    /\ UNCHANGED <<file, widgets, session_state, screen, args>>

NextNegative == CallIsNegative

SpecNegative == InitNegative /\ [][NextNegative]_vars

\* a minus sign, one or more digits, and an optional "."-fraction
MinusDigitsFraction(t) ==
    /\ Len(t) >= 2
    /\ t[1] = "-"
    /\ \E k \in 2..Len(t) :
           /\ AllDigits(SubSeq(t, 2, k))
           /\ \/ k = Len(t)
              \/ /\ k + 2 <= Len(t)
                 /\ t[k + 1] = "."
                 /\ AllDigits(SubSeq(t, k + 2, Len(t)))

----------------------------------------------------------------------------
(* The two ways of cutting a document into ranges, applied *)

InitRanges ==
    /\ IdleSession
    /\ args \in
         {[fn |-> "build_ranges_from_starts", pages |-> d, patterns |-> ps,
           header_lines |-> h, total_pages |-> Len(d), n |-> 0] :
              d \in DocumentsWithBlanks(MaxPages), ps \in PatternLists,
              h \in HeaderLineChoices}
         \cup
         {[fn |-> "build_ranges_every_n", pages |-> <<>>, patterns |-> <<>>,
           header_lines |-> 0, total_pages |-> P, n |-> n] :
              P \in 0..MaxTotalPages, n \in 1..MaxStride}
    /\ result = <<>>

StartsAndRanges(total_pages, starts) ==
    <<starts, build_ranges_from_starts(total_pages, starts)>>

\* the starts of the document's pages, and the ranges built from them
CallBuildRangesFromStarts ==
    /\ args.fn = "build_ranges_from_starts"
    /\ result = <<>>
    /\ result' = StartsAndRanges(args.total_pages,
                     detect_starts_by_patterns(
                         get_page_texts_for_start(args.pages, args.header_lines),
                         args.patterns))
    /\ UNCHANGED <<file, widgets, session_state, screen, args>>

CallBuildRangesEveryN ==
    /\ args.fn = "build_ranges_every_n"
    /\ result = <<>>
    /\ result' = <<build_ranges_every_n(args.total_pages, args.n)>>
    /\ UNCHANGED <<file, widgets, session_state, screen, args>>

NextRanges == CallBuildRangesFromStarts \/ CallBuildRangesEveryN

SpecRanges == InitRanges /\ [][NextRanges]_vars

Contiguous(ranges, total_pages) ==
    /\ \A k \in 1..(Len(ranges) - 1) : ranges[k].end = ranges[k + 1].start
    /\ ranges # <<>> => ranges[Len(ranges)].end = total_pages

Covered(ranges, total_pages) ==
    {p \in 0..total_pages : \E k \in DOMAIN ranges : ranges[k].start <= p /\ p < ranges[k].end}

\* C1: for a document of P >= 1 pages and a non-empty list of starts, the
\* ranges built from the starts are contiguous, the last one ends at P, and
\* together they cover exactly the pages 0..P-1.
C1_RangesCoverDocument ==
    (args.fn = "build_ranges_from_starts" /\ Len(result) = 2 /\ result[1] # <<>>)
        => /\ Contiguous(result[2], args.total_pages)
           /\ Covered(result[2], args.total_pages) = 0..(args.total_pages - 1)

CeilDiv(p, n) == (p + n - 1) \div n

\* C8: build_ranges_every_n(P, N) returns ceil(P/N) ranges, consecutive from
\* page 0, each of N pages except the last, which has P mod N pages (N when
\* P mod N = 0), and none has a label.
C8_EveryNPartition ==
    (args.fn = "build_ranges_every_n" /\ Len(result) = 1)
        => LET P == args.total_pages
               N == args.n
               ranges == result[1]
           IN  /\ Len(ranges) = CeilDiv(P, N)
               /\ \A k \in DOMAIN ranges :
                     /\ ranges[k].start = (k - 1) * N
                     /\ ranges[k].label = None
                     /\ ranges[k].end - ranges[k].start =
                            IF k < Len(ranges) THEN N
                            ELSE IF P % N = 0 THEN N ELSE P % N

\* a document whose last block is shorter than the others
C8_Witness ==
    /\ args.fn = "build_ranges_every_n"
    /\ Len(result) = 1
    /\ Len(result[1]) >= 2
    /\ args.total_pages % args.n # 0

----------------------------------------------------------------------------
(* export_zip_and_excel applied to the ranges of a document *)

\* (prefix, scan_pages, lines_per_page): the defaults; a prefix; the fewest
\* lines the form allows, over two pages
ExportSettings ==
    { [prefix |-> <<>>, scan_pages |-> 1, lines_per_page |-> 60],
      [prefix |-> <<"T", "-">>, scan_pages |-> 2, lines_per_page |-> 60],
      [prefix |-> <<>>, scan_pages |-> 2, lines_per_page |-> 5] }

\* the ranges the export handler builds for a document, in either mode
RangeChoices(pages) ==
    {build_ranges_every_n(Len(pages), n) : n \in {1, 2}}
    \cup
    {build_ranges_from_starts(Len(pages), starts) :
        starts \in {detect_starts_by_patterns(get_page_texts_for_start(pages, 0), ps) :
                       ps \in PatternLists} \ {<<>>}}

InitExport ==
    /\ IdleSession
    /\ args \in UNION {
          {[fn |-> "export_zip_and_excel", pages |-> d, ranges |-> rs,
            prefix |-> s.prefix, scan_pages |-> s.scan_pages,
            lines_per_page |-> s.lines_per_page] :
              rs \in RangeChoices(d), s \in ExportSettings} :
          d \in Documents(MaxPages)}
    /\ result = <<>>

CallExport ==
    /\ args.fn = "export_zip_and_excel"
    /\ result = <<>>
    /\ result' = <<export_zip_and_excel(args.pages, args.ranges, args.prefix,
                                        args.scan_pages, args.lines_per_page)>>
    /\ UNCHANGED <<file, widgets, session_state, screen, args>>

NextExport == CallExport

SpecExport == InitExport /\ [][NextExport]_vars

ExportReturned == args.fn = "export_zip_and_excel" /\ Len(result) = 1

\* C2: the file names written in one run of export_zip_and_excel (the
\* archive's entries, the column "archivo") are pairwise distinct.
C2_FileNamesDistinct ==
    ExportReturned =>
        LET rows == result[1].detalles_rows
            zip == result[1].zip_bytes
        IN  /\ \A i, j \in DOMAIN rows : i # j => rows[i].archivo # rows[j].archivo
            /\ \A i, j \in DOMAIN zip : i # j => zip[i].name # zip[j].name

\* the value of LAA/DESCARGA of section k is found and is negative
NegativeSection(k) ==
    LET laa == find_laa_descarga_in_section(args.pages, args.ranges[k].start,
                   args.ranges[k].end, args.scan_pages, args.lines_per_page)
    IN  laa.some /\ is_negative_number_string(laa.v)

RowsOf(rows, k) == {i \in DOMAIN rows : rows[i].orden = k}

\* C3: every range gives exactly one record: a section with a negative
\* LAA/DESCARGA gives one row of errores_rows (with the reason) and neither
\* an archive entry nor a row of detalles_rows; every other section gives one
\* archive entry and one row of detalles_rows.
C3_OneRecordPerRange ==
    ExportReturned =>
        LET det == result[1].detalles_rows
            err == result[1].errores_rows
            zip == result[1].zip_bytes
        IN  /\ Len(det) + Len(err) = Len(args.ranges)
            /\ Len(zip) = Len(det)
            /\ \A i \in DOMAIN zip :
                  /\ zip[i].name = det[i].archivo
                  /\ zip[i].pages = SubSeq(args.pages, args.ranges[det[i].orden].start + 1,
                                           args.ranges[det[i].orden].end)
            /\ \A k \in DOMAIN args.ranges :
                  IF NegativeSection(k)
                  THEN /\ Cardinality(RowsOf(err, k)) = 1
                       /\ RowsOf(det, k) = {}
                       /\ \A i \in RowsOf(err, k) : err[i].motivo = "LAA/DESCARGA negativo"
                  ELSE /\ Cardinality(RowsOf(det, k)) = 1
                       /\ RowsOf(err, k) = {}

\* a run with an accepted section after a rejected one
C3_Witness ==
    /\ ExportReturned
    /\ result[1].errores_rows # <<>>
    /\ \E i \in DOMAIN result[1].detalles_rows :
          result[1].detalles_rows[i].orden > result[1].errores_rows[1].orden

\* the name the field gives section k: the value of the first matching line
\* of the scan window, after the cutoff and the titles are removed; no value
\* when no line matches or nothing is left of the value
FieldValue(k) ==
    LET r == args.ranges[k]
        stop == Min(r.end, r.start + args.scan_pages)
        found == FirstValue(label_rx,
                     ScannedLines(args.pages, r.start, stop, args.lines_per_page))
        cleaned == clean_title_prefixes(cut_before_genero(found.v))
    IN  IF found.some /\ cleaned # <<>>
        THEN Some(sanitize_filename(cleaned, DefaultMaxLen))
        ELSE None

\* C6: the display name of a section is the field's value; else, when the
\* field gives no value, the label its start pattern captured; else "Plan_"
\* and the section's position in three digits.
C6_DisplayNamePriority ==
    ExportReturned =>
        \A k \in DOMAIN args.ranges :
            \A rows \in {result[1].detalles_rows, result[1].errores_rows} :
                \A i \in RowsOf(rows, k) :
                    rows[i].nombre_detectado =
                        IF FieldValue(k).some THEN FieldValue(k).v
                        ELSE IF args.ranges[k].label.some
                             THEN sanitize_filename(args.ranges[k].label.v, DefaultMaxLen)
                        ELSE PlanUnderscore \o ZeroPad3(k)

\* C7: the sheet "resumen" has one row for each distinct name of the accepted
\* sections, with the number of accepted sections of that name, ordered by
\* descending count and then ascending name.
C7_ResumenCountsSorted ==
    ExportReturned =>
        LET det == result[1].detalles_rows
            res == result[1].excel_bytes.resumen
        IN  /\ {res[i].nombre_detectado : i \in DOMAIN res}
                   = {det[i].nombre_detectado : i \in DOMAIN det}
            /\ \A i \in DOMAIN res :
                  res[i].cantidad_pdfs =
                      Cardinality({j \in DOMAIN det :
                          det[j].nombre_detectado = res[i].nombre_detectado})
            /\ \A i, j \in DOMAIN res :
                  i < j =>
                      /\ res[i].nombre_detectado # res[j].nombre_detectado
                      /\ \/ res[i].cantidad_pdfs > res[j].cantidad_pdfs
                         \/ /\ res[i].cantidad_pdfs = res[j].cantidad_pdfs
                            /\ StrLess(res[i].nombre_detectado, res[j].nombre_detectado)

\* a run in which a name of two sections comes before a name of one section
\* that is smaller as a string
C7_Witness ==
    /\ ExportReturned
    /\ LET res == result[1].excel_bytes.resumen
       IN  /\ Len(res) >= 2
           /\ res[1].cantidad_pdfs > res[2].cantidad_pdfs
           /\ StrLess(res[2].nombre_detectado, res[1].nombre_detectado)

\* the base file name of a row of detalles_rows or errores_rows
BaseOf(row) == BaseName(args.prefix, row.nombre_detectado)

\* the rows of detalles_rows up to row i that have the base name of row i
OccurrencesUpTo(det, i) == {j \in 1..i : BaseOf(det[j]) = BaseOf(det[i])}

\* B.pdf for the first occurrence of B, B_(k).pdf for the k-th
NumberedName(base, k) ==
    IF k = 1 THEN base \o PdfExt
    ELSE base \o <<"_", "(">> \o Decimal(k) \o <<")">> \o PdfExt

\* C11: within one run of export_zip_and_excel, the k-th accepted section of
\* base name B, in section order, is written as B.pdf for k = 1 and as
\* B_(k).pdf for k >= 2: the counter is kept per base name, starts at the
\* beginning of the run, and rejected sections do not advance it.
C11_SuffixPerBaseName ==
    ExportReturned =>
        LET det == result[1].detalles_rows
            zip == result[1].zip_bytes
        IN  /\ \A i \in 1..(Len(det) - 1) : det[i].orden < det[i + 1].orden
            /\ \A i \in DOMAIN det :
                  /\ det[i].archivo =
                         NumberedName(BaseOf(det[i]), Cardinality(OccurrencesUpTo(det, i)))
                  /\ zip[i].name = det[i].archivo

\* a run that writes B.pdf and B_(2).pdf with a rejected section of the same
\* base name between the two
C11_Witness ==
    /\ ExportReturned
    /\ LET det == result[1].detalles_rows
           err == result[1].errores_rows
       IN  \E i, j \in DOMAIN det :
              /\ i < j
              /\ BaseOf(det[i]) = BaseOf(det[j])
              /\ det[j].archivo = NumberedName(BaseOf(det[j]), 2)
              /\ \E e \in DOMAIN err :
                    /\ BaseOf(err[e]) = BaseOf(det[i])
                    /\ det[i].orden < err[e].orden
                    /\ err[e].orden < det[j].orden

----------------------------------------------------------------------------
(* The session cache *)

CacheKeys == {"zip_bytes", "excel_bytes", "zip_name", "excel_name"}

\* the elements of screen s of the given kind
ElementsOf(s, kind) == {i \in DOMAIN s.elements : s.elements[i].kind = kind}

\* no page of the file starts a section under the patterns of the text area
NoStarts(f, w) ==
    detect_starts_by_patterns(get_page_texts_for_start(f.pages, w.header_lines),
                              NonBlankPatterns(w.patterns_text)) = <<>>

\* C4: when the export is triggered in pattern mode and no page matches a
\* start pattern (or there is no pattern), the run shows an error, does not
\* call export_zip_and_excel, offers no new archive or workbook, and leaves
\* the session cache as it was.
C4_NoStartsNoExport ==
    [][ (screen'.pressed = "export" /\ widgets'.mode = PatternMode
            /\ NoStarts(file', widgets'))
        => /\ ElementsOf(screen', "error") # {}
           /\ ~screen'.export_called
           /\ ButtonKeys(screen') \cap {"dl_zip_now", "dl_excel_now"} = {}
           /\ session_state' = session_state ]_vars

\* an export that found no start, in a session whose cache holds the
\* artifacts of an earlier export
C4_Witness ==
    /\ screen.pressed = "export"
    /\ widgets.mode = PatternMode
    /\ NoStarts(file, widgets)
    /\ screen.stopped
    /\ CacheKeys \subseteq DOMAIN session_state

\* the download buttons of s that offer the cache
ReadyButtons(s) ==
    {i \in DOMAIN s.elements :
        /\ s.elements[i].kind = "download_button"
        /\ s.elements[i].key \in {"dl_zip_ready", "dl_excel_ready"}}

\* the buttons that offer the cache offer what ss holds
OffersCache(s, ss) ==
    \A i \in ReadyButtons(s) :
        /\ CacheKeys \subseteq DOMAIN ss
        /\ s.elements[i].key = "dl_zip_ready" =>
              /\ s.elements[i].data = ss["zip_bytes"]
              /\ s.elements[i].file_name = ss["zip_name"]
        /\ s.elements[i].key = "dl_excel_ready" =>
              /\ s.elements[i].data = ss["excel_bytes"]
              /\ s.elements[i].file_name = ss["excel_name"]

\* the cache holds the archive and the workbook of one export of file f
FromOneExport(ss, f, w) ==
    \E r \in {ExportRanges(f, w)} :
        /\ ~r.stopped
        /\ \E e \in {export_zip_and_excel(f.pages, r.ranges, w.prefix, w.scan_pages,
                                          w.lines_for_name)} :
              /\ ss["zip_bytes"] = e.zip_bytes
              /\ ss["excel_bytes"] = e.excel_bytes
              /\ ss["zip_name"] = Stem(f.name) \o SplitZipSuffix
              /\ ss["excel_name"] = Stem(f.name) \o ReporteXlsxSuffix

\* C5: the session cache is one slot: every export that produces artifacts
\* replaces the four entries together with values of that export, no other
\* action changes any of them, and the artifacts offered from the cache are
\* always those of the most recent export.
C5_CacheSingleSlot ==
    [][ /\ DOMAIN session_state' \in {{}, CacheKeys}
        /\ session_state' # session_state =>
              /\ screen'.pressed = "export"
              /\ screen'.export_called
        /\ screen'.export_called =>
              /\ DOMAIN session_state' = CacheKeys
              /\ FromOneExport(session_state', file', widgets')
        /\ OffersCache(screen', session_state') ]_vars

====
